---- MODULE Spec2Model ----
(***************************************************************************)
(* Model of company_analyzer.py: the team-assignment resolver, the         *)
(* best-effort JSON extraction of analyze_company, and the Streamlit       *)
(* script run (submit handler, history append block, history display).    *)
(*                                                                         *)
(* Modelling conventions                                                   *)
(*  - A Python dict is a TLA+ function whose DOMAIN is the set of keys     *)
(*    present; d.get(k, default) is Get(d, k, default).                    *)
(*  - A company name is a positive integer (company 1, company 2, ...);    *)
(*    the empty text input is EmptyName; a missing name reads as NoName.  *)
(*  - A response text is a sequence of tokens <<kind, index>>: the two     *)
(*    braces, a word of prose, and one token per JSON member               *)
(*    ("key": value, with its separating comma).  Values are of the types  *)
(*    the data model documents: strings and lists of strings.              *)
(***************************************************************************)
EXTENDS Integers, Sequences, FiniteSets

VARIABLES
    last_analysis,      \* st.session_state.last_analysis (Absent until first stored)
    analysis_history,   \* st.session_state.analysis_history
    last_run,           \* what the most recent script run was given and did
    shown,              \* what the most recent script run rendered
    sectors,            \* resolver harness: the argument of get_team_assignment
    assigned            \* resolver harness: the value it returned

vars == <<last_analysis, analysis_history, last_run, shown, sectors, assigned>>

session_vars == <<last_analysis, analysis_history, last_run, shown>>

resolver_vars == <<sectors, assigned>>

----------------------------------------------------------------------------
(* Bounds *)

\* number of distinct company names the user may type (Spec)
MaxNames == 2

\* longest response text drawn from all token sequences (Spec)
MaxContent == 3

\* longest sector list handed to the resolver (SpecResolver)
MaxSectors == 3

\* number of companies analysed one after the other (SpecHistory)
MaxCompanies == 11

\* the history display shows the last 10 entries
HistoryShown == 10

----------------------------------------------------------------------------
(* Values *)

\* Python's None as the value analyze_company returns when the call raised
None == [none |-> TRUE]

\* Python's None as the value of analysis.get('company_name') when the key is missing
NoName == -1

\* the empty string of the company-name text input
EmptyName == 0

Names == 1..MaxNames

\* "attribute not set" for st.session_state.last_analysis
Absent == [absent |-> TRUE]

\* the five categories of the prompt, and a label outside them
SectorLabels == {"K-12", "Higher Education", "Workforce Learning",
                 "Corporate Development", "Other", "EdTech"}

Min(a, b) == IF a < b THEN a ELSE b

Max(a, b) == IF a < b THEN b ELSE a

SeqsUpTo(S, n) == UNION {[1..k -> S] : k \in 0..n}

Range(s) == {s[i] : i \in 1..Len(s)}

Get(d, k, default) == IF k \in DOMAIN d THEN d[k] ELSE default

\* truth value of a Python object that is None or a dict
Truthy(a) == a # None /\ DOMAIN a # {}

----------------------------------------------------------------------------
(* get_team_assignment *)

\* faulty variant: the single-sector rules tried before the combination rules
get_team_assignment_single_first(s) ==
    IF Len(s) = 0 THEN "To be assigned"
    ELSE LET sector_set == Range(s) IN
         IF "K-12" \in sector_set \/ "Higher Education" \in sector_set
            THEN "Mitch"
         ELSE IF "Workforce Learning" \in sector_set \/ "Corporate Development" \in sector_set
            THEN "Sam"
         ELSE "To be assigned"

\* faulty variant: the Workforce/Corporate rules tried before the K-12/Higher-Ed ones
get_team_assignment_sam_first(s) ==
    IF Len(s) = 0 THEN "To be assigned"
    ELSE LET sector_set == Range(s) IN
         IF "Workforce Learning" \in sector_set \/ "Corporate Development" \in sector_set
            THEN "Sam"
         ELSE IF "K-12" \in sector_set \/ "Higher Education" \in sector_set
            THEN "Mitch"
         ELSE "To be assigned"

\* faulty variant: the last Sam rule looks for "Workforce Learning" only
get_team_assignment_workforce_only(s) ==
    IF Len(s) = 0 THEN "To be assigned"
    ELSE LET sector_set == Range(s) IN
         IF {"K-12", "Higher Education"} \subseteq sector_set THEN "Mitch"
         ELSE IF {"Workforce Learning", "Corporate Development"} \subseteq sector_set
            THEN "Sam"
         ELSE IF "K-12" \in sector_set \/ "Higher Education" \in sector_set
            THEN "Mitch"
         ELSE IF "Workforce Learning" \in sector_set THEN "Sam"
         ELSE "To be assigned"

\* faulty variant: the "Other" label treated as an assignable sector
get_team_assignment_other_assigned(s) ==
    IF Len(s) = 0 THEN "To be assigned"
    ELSE LET sector_set == Range(s) IN
         IF {"K-12", "Higher Education"} \subseteq sector_set THEN "Mitch"
         ELSE IF {"Workforce Learning", "Corporate Development"} \subseteq sector_set
            THEN "Sam"
         ELSE IF "K-12" \in sector_set \/ "Higher Education" \in sector_set
            THEN "Mitch"
         ELSE IF "Workforce Learning" \in sector_set \/ "Corporate Development" \in sector_set
            THEN "Sam"
         ELSE IF "Other" \in sector_set THEN "Sam"
         ELSE "To be assigned"

get_team_assignment(s) ==
    IF Len(s) = 0 THEN "To be assigned"
    ELSE LET sector_set == Range(s) IN
         IF {"K-12", "Higher Education"} \subseteq sector_set THEN "Mitch"
         ELSE IF {"Workforce Learning", "Corporate Development"} \subseteq sector_set
            THEN "Sam"
         ELSE IF "K-12" \in sector_set \/ "Higher Education" \in sector_set
            THEN "Mitch"
         ELSE IF "Workforce Learning" \in sector_set \/ "Corporate Development" \in sector_set
            THEN "Sam"
         ELSE "To be assigned"

----------------------------------------------------------------------------
(* Response texts *)

LBrace == <<"{", 0>>

RBrace == <<"}", 0>>

Word == <<"w", 0>>

\* the values a "primary_sectors" / "secondary_sectors" / "confidence" member
\* token <<key, i>> carries
PrimaryValues == << <<"K-12">>, <<"Workforce Learning">> >>

SecondaryValues == << <<"Higher Education">> >>

ConfidenceValues == <<"High">>

ReasoningValues == << <<Word>> >>

IsMember(tok) == tok[1] \in {"company_name", "primary_sectors", "secondary_sectors",
                             "confidence", "reasoning"}

MemberValue(tok) ==
    CASE tok[1] = "company_name" -> tok[2]
      [] tok[1] = "primary_sectors" -> PrimaryValues[tok[2]]
      [] tok[1] = "secondary_sectors" -> SecondaryValues[tok[2]]
      [] tok[1] = "confidence" -> ConfidenceValues[tok[2]]
      [] tok[1] = "reasoning" -> ReasoningValues[tok[2]]

\* str.find: 0-based index of the first occurrence, -1 when there is none
Find(content, tok) ==
    IF \E i \in 1..Len(content) : content[i] = tok
    THEN (CHOOSE i \in 1..Len(content) :
              content[i] = tok /\ \A j \in 1..(i - 1) : content[j] # tok) - 1
    ELSE -1

\* str.rfind: 0-based index of the last occurrence, -1 when there is none
RFind(content, tok) ==
    IF \E i \in 1..Len(content) : content[i] = tok
    THEN (CHOOSE i \in 1..Len(content) :
              content[i] = tok /\ \A j \in (i + 1)..Len(content) : content[j] # tok) - 1
    ELSE -1

\* content[start:end] with Python's treatment of negative and out-of-range indices
PySlice(s, start, end) ==
    LET n == Len(s)
        a == IF start < 0 THEN Max(start + n, 0) ELSE Min(start, n)
        b == IF end < 0 THEN Max(end + n, 0) ELSE Min(end, n)
    IN IF a >= b THEN <<>> ELSE SubSeq(s, a + 1, b)

\* whether json.loads accepts the text: one object, members only between its braces
JsonValid(json_str) ==
    /\ Len(json_str) >= 2
    /\ json_str[1] = LBrace
    /\ json_str[Len(json_str)] = RBrace
    /\ \A i \in 2..(Len(json_str) - 1) : IsMember(json_str[i])

\* json.loads of an accepted text: a repeated key keeps its last value
json_loads(json_str) ==
    LET idx == 2..(Len(json_str) - 1)
        keys == {json_str[i][1] : i \in idx}
        last(k) == CHOOSE i \in idx :
                      json_str[i][1] = k /\ \A j \in idx : json_str[j][1] = k => j <= i
    IN [k \in keys |-> MemberValue(json_str[last(k)])]

Fallback(company_name, content) ==
    [company_name |-> company_name,
     primary_sectors |-> <<"Other">>,
     secondary_sectors |-> <<>>,
     reasoning |-> content,
     confidence |-> "Low"]

\* faulty variant: the fallback result reports "Medium" confidence
analyze_company_medium(company_name, content) ==
    LET start == Find(content, LBrace)
        end == RFind(content, RBrace) + 1
        json_str == PySlice(content, start, end)
    IN IF JsonValid(json_str) THEN json_loads(json_str)
       ELSE [Fallback(company_name, content) EXCEPT !.confidence = "Medium"]

\* analyze_company when the outbound call returns `content`
analyze_company(company_name, content) ==
    LET start == Find(content, LBrace)
        end == RFind(content, RBrace) + 1
        json_str == PySlice(content, start, end)
    IN IF JsonValid(json_str) THEN json_loads(json_str)
       ELSE Fallback(company_name, content)

\* analyze_company when the outbound call raises: st.error, return None
analyze_company_raised == None

----------------------------------------------------------------------------
(* One script run: submit handler, history append block, history display *)

all_sectors(analysis) ==
    Get(analysis, "primary_sectors", <<>>) \o Get(analysis, "secondary_sectors", <<>>)

NoReasoning == << <<"No reasoning provided", 0>> >>

\* what the results section renders for a stored analysis (lines 169-192)
ResultView(analysis) ==
    [message |-> "success",
     primary |-> Get(analysis, "primary_sectors", <<>>),
     secondary |-> Get(analysis, "secondary_sectors", <<>>),
     assigned_member |-> get_team_assignment(all_sectors(analysis)),
     confidence |-> Get(analysis, "confidence", "Medium"),
     reasoning |-> Get(analysis, "reasoning", NoReasoning)]

\* a run that renders no results section: nothing, st.warning or st.error
NoResultView(message) ==
    [message |-> message, primary |-> <<>>, secondary |-> <<>>,
     assigned_member |-> "", confidence |-> "", reasoning |-> <<>>]

\* faulty variant: the linear scan never finds the name
InHistory_never(history, analysis) == FALSE

\* any(h.get('company_name') == analysis.get('company_name') for h in history)
InHistory(history, analysis) ==
    \E i \in 1..Len(history) :
        history[i].company_name = Get(analysis, "company_name", NoName)

\* faulty variant: the entry is built without the analysis' company_name
HistoryEntry_no_name(analysis) ==
    [company_name |-> NoName,
     sectors |-> all_sectors(analysis),
     assigned_to |-> get_team_assignment(all_sectors(analysis)),
     confidence |-> Get(analysis, "confidence", "Medium")]

\* the dict appended at lines 213-218
HistoryEntry(analysis) ==
    [company_name |-> Get(analysis, "company_name", NoName),
     sectors |-> all_sectors(analysis),
     assigned_to |-> get_team_assignment(all_sectors(analysis)),
     confidence |-> Get(analysis, "confidence", "Medium")]

\* faulty variant: the block appends even when the stored name is already listed
HistoryAppend_always(last, history) ==
    IF last # Absent /\ Truthy(last)
    THEN Append(history, HistoryEntry(last))
    ELSE history

\* the history append block (lines 204-218), run with the stored last_analysis
HistoryAppend(last, history) ==
    IF last # Absent /\ Truthy(last) /\ ~InHistory(history, last)
    THEN Append(history, HistoryEntry(last))
    ELSE history

Reversed(s) == [i \in 1..Len(s) |-> s[Len(s) + 1 - i]]

\* faulty variant: the first 10 entries instead of the last 10
HistoryDisplay_first(history) ==
    Reversed(PySlice(history, 0, HistoryShown))

\* reversed(analysis_history[-10:]) (lines 221-226)
HistoryDisplay(history) ==
    Reversed(PySlice(history, 0 - HistoryShown, Len(history)))

\* lines 159-166: the handler stores the result when the button was pressed, the
\* name is non-empty and the result is truthy
Stores(button, company_name, analysis) ==
    button /\ company_name # EmptyName /\ Truthy(analysis)

\* a whole script run.  `call` is "none" (no request issued), "raised" or "ok";
\* `content` is the text the call returned (empty unless call = "ok") and
\* `analysis` what analyze_company returned (None when not called or raised).
\* `repeat` records that the run before this one analysed the same name and its
\* outbound call returned too
Run(button, company_name, call, content, analysis) ==
    /\ last_analysis' = IF Stores(button, company_name, analysis)
                        THEN analysis ELSE last_analysis
    /\ analysis_history' = HistoryAppend(last_analysis', analysis_history)
    /\ shown' = [result |-> IF Stores(button, company_name, analysis)
                               THEN ResultView(analysis)
                            ELSE IF button /\ company_name = EmptyName
                               THEN NoResultView("warning")
                            ELSE IF button /\ call = "raised"
                               THEN NoResultView("error")
                            ELSE NoResultView("none"),
                 history |-> HistoryDisplay(analysis_history')]
    /\ last_run' = [button |-> button, company_name |-> company_name, call |-> call,
                    content |-> content,
                    repeat |-> /\ call = "ok"
                               /\ last_run.call = "ok"
                               /\ last_run.company_name = company_name]
    /\ UNCHANGED resolver_vars

\* a rerun of the script without the button (another widget changed)
Rerun == Run(FALSE, EmptyName, "none", <<>>, None)

\* the button pressed with an empty company name: st.warning, no request
SubmitEmpty == Run(TRUE, EmptyName, "none", <<>>, None)

\* the button pressed and the outbound call raises
SubmitRaises(company_name) ==
    Run(TRUE, company_name, "raised", <<>>, analyze_company_raised)

\* the button pressed and the outbound call returns `content`
SubmitReturns(company_name, content) ==
    \E analysis \in {analyze_company(company_name, content)} :
        Run(TRUE, company_name, "ok", content, analysis)

----------------------------------------------------------------------------
(* Spec: a session with a few names and every kind of response text *)

FullObject(n) ==
    <<LBrace, <<"company_name", n>>, <<"primary_sectors", 1>>,
      <<"secondary_sectors", 1>>, RBrace>>

\* the response texts a session goes on with: prose only, the empty object, and
\* for every name a full object in prose
Contents ==
    {<<Word>>, <<LBrace, RBrace>>}
        \cup {<<Word>> \o FullObject(n) \o <<Word>> : n \in Names}

Tokens == {LBrace, RBrace, Word, <<"company_name", 1>>, <<"primary_sectors", 1>>}

\* every response text of at most MaxContent tokens
Texts == SeqsUpTo(Tokens, MaxContent)

SessionInit ==
    /\ last_analysis = Absent
    /\ analysis_history = <<>>
    /\ last_run = [button |-> FALSE, company_name |-> EmptyName, call |-> "none",
                   content |-> <<>>, repeat |-> FALSE]
    /\ shown = [result |-> NoResultView("none"), history |-> <<>>]

Init ==
    /\ SessionInit
    /\ sectors = <<>>
    /\ assigned = ""

Next ==
    \/ Rerun
    \/ SubmitEmpty
    \/ \E company_name \in Names : SubmitRaises(company_name)
    \/ \E company_name \in Names, content \in Contents :
           SubmitReturns(company_name, content)
    \* any text at all is tried as the first response of a session
    \/ /\ last_analysis = Absent
       /\ analysis_history = <<>>
       /\ \E company_name \in Names, content \in Texts :
              SubmitReturns(company_name, content)

Spec == Init /\ [][Next]_vars

----------------------------------------------------------------------------
(* SpecHistory: many companies, analysed in the order of their numbers *)

\* the response for company n: a well-formed object that echoes the name, its
\* primary sector alternating between the two PrimaryValues
EchoText(n) ==
    <<Word, LBrace, <<"company_name", n>>, <<"primary_sectors", (n % 2) + 1>>,
      <<"reasoning", 1>>, <<"confidence", 1>>, RBrace>>

\* the names the user may submit next: a company already analysed or the next new one
NextCompanies == 1..Min(Len(analysis_history) + 1, MaxCompanies)

NextHistory ==
    \/ Rerun
    \/ SubmitEmpty
    \/ \E company_name \in NextCompanies : SubmitRaises(company_name)
    \/ \E company_name \in NextCompanies :
           SubmitReturns(company_name, EchoText(company_name))

SpecHistory == Init /\ [][NextHistory]_vars

----------------------------------------------------------------------------
(* SpecResolver: get_team_assignment applied to every short sector list *)

InitResolver ==
    /\ SessionInit
    /\ sectors \in SeqsUpTo(SectorLabels, MaxSectors)
    /\ assigned = ""

Resolve ==
    /\ assigned = ""
    /\ assigned' = get_team_assignment(sectors)
    /\ UNCHANGED <<sectors, session_vars>>

NextResolver == Resolve

SpecResolver == InitResolver /\ [][NextResolver]_vars

----------------------------------------------------------------------------
(* Claims about get_team_assignment, checked under SpecResolver *)

Resolved == assigned # ""

sector_set == Range(sectors)

HasSchool == "K-12" \in sector_set \/ "Higher Education" \in sector_set

HasWork == "Workforce Learning" \in sector_set \/ "Corporate Development" \in sector_set

BothSchool == {"K-12", "Higher Education"} \subseteq sector_set

BothWork == {"Workforce Learning", "Corporate Development"} \subseteq sector_set

\* the resolver of rules 1, 4, 5 and 6 only
ReducedResolver(s) ==
    IF Len(s) = 0 THEN "To be assigned"
    ELSE IF "K-12" \in Range(s) \/ "Higher Education" \in Range(s) THEN "Mitch"
    ELSE IF "Workforce Learning" \in Range(s) \/ "Corporate Development" \in Range(s)
       THEN "Sam"
    ELSE "To be assigned"

C2_WorkWithoutSchoolIsSam ==
    (Resolved /\ Len(sectors) > 0 /\ HasWork /\ ~HasSchool) => assigned = "Sam"

C2_Witness ==
    /\ assigned = "Sam"
    /\ "Corporate Development" \in sector_set
    /\ "Workforce Learning" \notin sector_set
    /\ "Other" \in sector_set

\* C3: the resolver returns one of "Mitch", "Sam", "To be assigned" for every
\* collection, and "To be assigned" exactly for the empty collection and the
\* collections with none of the four assignable labels.
C3_TotalAndUnassignedIffNoLabel ==
    Resolved =>
        /\ assigned \in {"Mitch", "Sam", "To be assigned"}
        /\ assigned = "To be assigned" <=> (~HasSchool /\ ~HasWork)

C3_Witness ==
    /\ assigned = "To be assigned"
    /\ sectors = <<"Other">>

----------------------------------------------------------------------------
(* Claims about the session, checked under Spec and SpecHistory *)

Count(history, name) ==
    Cardinality({i \in 1..Len(history) : history[i].company_name = name})

\* the submit handler ended in an error: empty name, or the outbound call raised
ErrorRun(run) == run.button /\ (run.company_name = EmptyName \/ run.call = "raised")

\* the text holds a '{' ... '}' span, first '{' to last '}', that parses as JSON
ParsesAsJson(content) ==
    \E i \in 1..Len(content), j \in 1..Len(content) :
        /\ i < j
        /\ content[i] = LBrace /\ \A k \in 1..(i - 1) : content[k] # LBrace
        /\ content[j] = RBrace /\ \A k \in (j + 1)..Len(content) : content[k] # RBrace
        /\ \A k \in (i + 1)..(j - 1) : IsMember(content[k])

\* what analyze_company returned in the latest run, when its call returned
Returned == analyze_company(last_run.company_name, last_run.content)

\* C4: the history never holds two entries with the same company_name.
C4_NoDuplicateNames ==
    \A i, j \in 1..Len(analysis_history) :
        i # j => analysis_history[i].company_name # analysis_history[j].company_name

C4_Witness ==
    /\ last_run.repeat
    /\ Len(analysis_history) >= 2
    /\ Count(analysis_history, last_run.company_name) = 1

C7_FallbackOnUnparsedText ==
    [][(last_run'.call = "ok" /\ ~ParsesAsJson(last_run'.content)) =>
          /\ last_analysis' =
                [company_name |-> last_run'.company_name,
                 primary_sectors |-> <<"Other">>,
                 secondary_sectors |-> <<>>,
                 reasoning |-> last_run'.content,
                 confidence |-> "Low"]
          /\ shown'.result =
                [message |-> "success",
                 primary |-> <<"Other">>,
                 secondary |-> <<>>,
                 assigned_member |-> "To be assigned",
                 confidence |-> "Low",
                 reasoning |-> last_run'.content]
          /\ analysis_history' =
                IF Count(analysis_history, last_run'.company_name) > 0
                THEN analysis_history
                ELSE Append(analysis_history,
                            [company_name |-> last_run'.company_name,
                             sectors |-> <<"Other">>,
                             assigned_to |-> "To be assigned",
                             confidence |-> "Low"])]_vars

C7_Witness ==
    /\ last_run.call = "ok"
    /\ last_run.content = <<RBrace, LBrace>>
    /\ last_analysis.confidence = "Low"
    /\ analysis_history[Len(analysis_history)].sectors = <<"Other">>

\* C8: the history display shows the last 10 entries of the history list, or all
\* of them when there are fewer, the most recently created first.
C8_DisplayLastTenNewestFirst ==
    /\ Len(shown.history) = Min(Len(analysis_history), 10)
    /\ \A i \in 1..Len(shown.history) :
           shown.history[i] = analysis_history[Len(analysis_history) + 1 - i]

C8_Witness ==
    /\ Len(analysis_history) > 10
    /\ Len(shown.history) = 10
    /\ shown.history[1].company_name = Len(analysis_history)

\* C10 as stated: every submit with a non-empty name whose call returns stores
\* the parsed result as last_analysis, shows it with the defaults for missing
\* keys, and leaves an entry for its company_name in the history.
C10_EveryReturnedResultPerformed ==
    last_run.call = "ok" =>
        /\ last_analysis = Returned
        /\ shown.result = ResultView(Returned)
        /\ Count(analysis_history, Get(Returned, "company_name", NoName)) >= 1

====
